---- MODULE Spec2Model ----
(***************************************************************************)
(* A model of graphs.py: the label deriver (get_group_name and helpers),   *)
(* the series parser (read_data) and the grouping / aggregation /          *)
(* comparison coordinator (create_plot).                                   *)
(*                                                                         *)
(* Python strings are sequences of one-character strings, so that          *)
(* startswith, endswith, split, rsplit, basename and splitext are computed *)
(* character by character as Python computes them.                         *)
(***************************************************************************)
EXTENDS Integers, Sequences, FiniteSets, TLC

VARIABLES
    l_names,    \* get_group_name: the argument `files`
    l_result,   \* get_group_name: what the call returned or raised
    l_pc,       \* get_group_name: "call" before the call, "ret" after it
    r_pc,       \* read_data: "open", "lines" (in the loop over the lines), "done"
    r_any,      \* read_data: whether the file has given a line yet
    r_acc,      \* read_data: the locals x, y, is_distance (and a raised error)
    r_result,   \* read_data: what the call returned or raised
    plot_files, \* create_plot: the argument `files`, a list of groups of files
    violin_names, \* create_plot: the argument `violin_names`
    pc,         \* create_plot: "groups" (in the loop over the groups), "done"
    group_idx,  \* create_plot: the loop variable, 0-based as in the code
    plot_acc,   \* create_plot: the locals the loop over the groups updates
    fig,        \* create_plot: the trend scene
    violin_fig, \* create_plot: the distribution scene
    outcome,    \* create_plot: "running", then "saved", "no_data" or "error"
    sel_input,  \* main: user_input, the selection typed at the prompt
    sel_pc,     \* process_selection / main: "split", "ask", "groups", "main",
                \* then "called" (create_plot was called) or "skipped"
    sel_groups, \* process_selection: groups, the selection split at ';'
    sel_names,  \* process_selection: violin_names
    sel_idx,    \* process_selection: how many of the groups the loop has done
    sel_result, \* process_selection: result
    sel_call    \* main: the arguments of its call of create_plot

label_vars == <<l_names, l_result, l_pc>>
read_vars == <<r_pc, r_any, r_acc, r_result>>
plot_vars == <<plot_files, violin_names, pc, group_idx, plot_acc, fig, violin_fig,
               outcome>>
sel_vars == <<sel_input, sel_pc, sel_groups, sel_names, sel_idx, sel_result, sel_call>>
vars == <<l_names, l_result, l_pc, r_pc, r_any, r_acc, r_result,
          plot_files, violin_names, pc, group_idx, plot_acc, fig, violin_fig, outcome,
          sel_input, sel_pc, sel_groups, sel_names, sel_idx, sel_result, sel_call>>

\* violin_names = None
NoNames == [none |-> TRUE, names |-> <<>>]

\* process_selection is not running
SelIdle ==
    /\ sel_input = <<>> /\ sel_pc = "idle" /\ sel_groups = <<>>
    /\ sel_names = NoNames /\ sel_idx = 0 /\ sel_result = <<>>
    /\ sel_call = [files |-> <<>>, violin_names |-> NoNames]

----------------------------------------------------------------------------
(* Bounds of the model *)

\* the largest number of underscore-separated tokens of a generated name
MaxTokens == 3
\* the largest number of names handed to get_group_name
MaxNames == 3
\* the largest number of tokens of all the names handed to get_group_name
MaxTotalTokens == 6
\* the largest number of samples read_data collects from one file
MaxSamples == 8

----------------------------------------------------------------------------
(* Python str and os.path primitives *)

\* The characters the model uses, in ascending code point order: Python
\* compares strings by code point.
AsciiOrder == <<".", "/", "5", "_", "a", "b", "c", "d", "e", "f", "t", "w", "x">>

Ord(c) == CHOOSE i \in 1..Len(AsciiOrder) : AsciiOrder[i] = c

Min2(a, b) == IF a <= b THEN a ELSE b

\* s < t for Python strings
StrLess(s, t) ==
    LET n == Min2(Len(s), Len(t))
        diff == {i \in 1..n : s[i] # t[i]}
    IN  IF diff = {} THEN Len(s) < Len(t)
        ELSE LET i == CHOOSE j \in diff : \A k \in diff : j <= k
             IN  Ord(s[i]) < Ord(t[i])

\* s.find(c) + 1, and 0 when c does not occur in s
FirstIdx(s, c) ==
    LET hits == {i \in 1..Len(s) : s[i] = c}
    IN  IF hits = {} THEN 0 ELSE CHOOSE i \in hits : \A k \in hits : i <= k

\* s.rfind(c) + 1, and 0 when c does not occur in s
LastIdx(s, c) ==
    LET hits == {i \in 1..Len(s) : s[i] = c}
    IN  IF hits = {} THEN 0 ELSE CHOOSE i \in hits : \A k \in hits : i >= k

\* s.startswith(p)
StartsWith(s, p) == Len(p) <= Len(s) /\ SubSeq(s, 1, Len(p)) = p

\* s.endswith(p)
EndsWith(s, p) == Len(p) <= Len(s) /\ SubSeq(s, Len(s) - Len(p) + 1, Len(s)) = p

\* s.split('_'): never empty, ''.split('_') is ['']
RECURSIVE Split(_)
Split(s) ==
    LET i == FirstIdx(s, "_")
    IN  IF i = 0 THEN <<s>>
        ELSE <<SubSeq(s, 1, i - 1)>> \o Split(SubSeq(s, i + 1, Len(s)))

\* '_'.join(parts)
RECURSIVE Join(_)
Join(parts) ==
    IF parts = <<>> THEN <<>>
    ELSE IF Len(parts) = 1 THEN parts[1]
    ELSE parts[1] \o <<"_">> \o Join(Tail(parts))

\* os.path.basename(p): what follows the last '/'
basename(p) == SubSeq(p, LastIdx(p, "/") + 1, Len(p))

\* os.path.splitext(p)[0]: the extension starts at the last '.' of the final
\* path component, unless only dots precede it in that component
splitext_root(p) ==
    LET sep == LastIdx(p, "/")
        dot == LastIdx(p, ".")
    IN  IF dot > sep /\ \E k \in (sep + 1)..(dot - 1) : p[k] # "."
        THEN SubSeq(p, 1, dot - 1)
        ELSE p

\* os.path.splitext(os.path.basename(f))[0]
base_name_of(f) == splitext_root(basename(f))

\* sorted(S) for a set of strings
RECURSIVE SortedStrings(_)
SortedStrings(S) ==
    IF S = {} THEN <<>>
    ELSE LET m == CHOOSE x \in S : \A y \in S : y = x \/ StrLess(x, y)
         IN  <<m>> \o SortedStrings(S \ {m})

\* the elements of a sequence
Range(s) == {s[i] : i \in 1..Len(s)}

\* s[m..n] clamped to the sequence, as a Python slice is
Slice(s, m, n) ==
    LET lo == IF m < 1 THEN 1 ELSE m
        hi == IF n > Len(s) THEN Len(s) ELSE n
    IN  IF lo > hi THEN <<>> ELSE SubSeq(s, lo, hi)

\* sum(s) for a sequence of integers
RECURSIVE SumInts(_)
SumInts(s) == IF s = <<>> THEN 0 ELSE Head(s) + SumInts(Tail(s))

\* sorted(S) for a set of integers
RECURSIVE SortedInts(_)
SortedInts(S) ==
    IF S = {} THEN <<>>
    ELSE LET m == CHOOSE x \in S : \A y \in S : x <= y
         IN  <<m>> \o SortedInts(S \ {m})

----------------------------------------------------------------------------
(* The label deriver *)

\* What a call returns or raises: exc is "" and val the returned string, or
\* exc names the exception ("NoTermination": the loop never ends).
Returned(v) == [exc |-> "", val |-> v]
Raised(e) == [exc |-> e, val |-> <<>>]

\* parts[i] if i < len(parts) else None
ValueAt(parts, i) ==
    IF i <= Len(parts) THEN [none |-> FALSE, v |-> parts[i]]
    ELSE [none |-> TRUE, v |-> <<>>]

\* find_varying_parts: the positions (1-based here, 0-based in Python), among
\* those of the FIRST name, where the names' tokens are not all the same
find_varying_parts(files) ==
    IF Len(files) <= 1 THEN <<>>
    ELSE LET all_parts == [k \in 1..Len(files) |-> Split(base_name_of(files[k]))]
             varying_positions ==
                 {i \in 1..Len(all_parts[1]) :
                     Cardinality({ValueAt(all_parts[k], i) : k \in 1..Len(files)}) > 1}
         IN  SortedInts(varying_positions)

\* split_filename: (prefix, varying_parts, suffix)
split_filename(filename, varying_positions) ==
    LET base_name == base_name_of(filename)
        parts == Split(base_name)
        present == SelectSeq(varying_positions, LAMBDA i : i <= Len(parts))
    IN  IF varying_positions = <<>>
        THEN [prefix |-> base_name, varying |-> <<>>, suffix |-> <<>>]
        ELSE [prefix |-> Join(Slice(parts, 1, varying_positions[1] - 1)),
              varying |-> [k \in 1..Len(present) |-> parts[present[k]]],
              suffix |-> Join(Slice(parts,
                                    varying_positions[Len(varying_positions)] + 1,
                                    Len(parts)))]

\* while not prefix.startswith(common_prefix) and common_prefix:
\*     common_prefix = common_prefix.rsplit('_', 1)[0]
RECURSIVE PrefixLoop(_, _)
PrefixLoop(prefix, common_prefix) ==
    IF StartsWith(prefix, common_prefix) \/ common_prefix = <<>>
    THEN Returned(common_prefix)
    ELSE LET i == LastIdx(common_prefix, "_")
         IN  IF i = 0 THEN Raised("NoTermination")
             ELSE PrefixLoop(prefix, SubSeq(common_prefix, 1, i - 1))

\* while not suffix.endswith(common_suffix) and common_suffix:
\*     common_suffix = common_suffix.split('_', 1)[1]
RECURSIVE SuffixLoop(_, _)
SuffixLoop(suffix, common_suffix) ==
    IF EndsWith(suffix, common_suffix) \/ common_suffix = <<>>
    THEN Returned(common_suffix)
    ELSE LET i == FirstIdx(common_suffix, "_")
         IN  IF i = 0 THEN Raised("IndexError")
             ELSE SuffixLoop(suffix, SubSeq(common_suffix, i + 1, Len(common_suffix)))

\* for prefix, _, suffix in file_parts[1:]: the two loops, file after file
RECURSIVE CommonLoop(_, _, _, _)
CommonLoop(file_parts, k, common_prefix, common_suffix) ==
    IF k > Len(file_parts)
    THEN [exc |-> "", prefix |-> common_prefix, suffix |-> common_suffix]
    ELSE LET p == PrefixLoop(file_parts[k].prefix, common_prefix)
         IN  IF p.exc # ""
             THEN [exc |-> p.exc, prefix |-> <<>>, suffix |-> <<>>]
             ELSE LET s == SuffixLoop(file_parts[k].suffix, common_suffix)
                  IN  IF s.exc # ""
                      THEN [exc |-> s.exc, prefix |-> <<>>, suffix |-> <<>>]
                      ELSE CommonLoop(file_parts, k + 1, p.val, s.val)

\* get_group_name with the single-name shortcut left out (a mutant)
get_group_name_no_shortcut(files) ==
    IF files = <<>> THEN Returned(<<>>)
    ELSE Returned(base_name_of(files[1]))

\* get_group_name
get_group_name(files) ==
    IF files = <<>> THEN Returned(<<>>)
    ELSE IF Len(files) = 1 THEN Returned(basename(files[1]))
    ELSE
    LET base_names == [k \in 1..Len(files) |-> base_name_of(files[k])]
        varying_positions == find_varying_parts(base_names)
        file_parts == [k \in 1..Len(files) |->
                          split_filename(base_names[k], varying_positions)]
        common == CommonLoop(file_parts, 2, file_parts[1].prefix, file_parts[1].suffix)
        all_varying == UNION {Range(file_parts[k].varying) : k \in 1..Len(files)}
        parts == (IF common.prefix # <<>> THEN <<common.prefix>> ELSE <<>>)
                 \o (IF all_varying # {}
                     THEN <<Join(SortedStrings(all_varying))>> ELSE <<>>)
                 \o (IF common.suffix # <<>> THEN <<common.suffix>> ELSE <<>>)
    IN  IF common.exc # "" THEN Raised(common.exc) ELSE Returned(Join(parts))

----------------------------------------------------------------------------
(* The inputs of the label deriver *)

\* tokens: "a", "ba" (which ends with "a") and "b.5" (which holds a dot)
TokenSet == {<<"a">>, <<"b", "a">>, <<"b", ".", "5">>}

\* the same name as main passes it: os.path.join(path, f) of a .txt file
AsPath(n) == <<"d", "/">> \o n \o <<".", "t", "x", "t">>

\* the token counts of a list of names: 1..MaxNames names of 1..MaxTokens
\* tokens each, MaxTotalTokens tokens at most in all
NameShapes ==
    UNION {{sh \in [1..n -> 1..MaxTokens] : SumInts(sh) <= MaxTotalTokens} :
              n \in 1..MaxNames}

\* the names of token counts sh whose tokens, one name after the other, are toks
NamesOfShape(sh, toks) ==
    [k \in 1..Len(sh) |->
        LET before == SumInts(SubSeq(sh, 1, k - 1))
        IN  Join(SubSeq(toks, before + 1, before + sh[k]))]

\* the lists of names handed to get_group_name, all bare or all paths
LabelInit ==
    /\ \E sh \in NameShapes, as_path \in BOOLEAN :
         \E toks \in [1..SumInts(sh) -> TokenSet] :
            LET ns == NamesOfShape(sh, toks)
            IN  l_names = IF as_path THEN [k \in 1..Len(ns) |-> AsPath(ns[k])] ELSE ns
    /\ l_result = Raised("NotCalled")
    /\ l_pc = "call"
    /\ r_pc = "idle" /\ r_any = FALSE /\ r_acc = <<>> /\ r_result = <<>>
    /\ plot_files = <<>> /\ pc = "idle" /\ group_idx = 0 /\ plot_acc = <<>>
    /\ violin_names = NoNames /\ SelIdle
    /\ fig = <<>> /\ violin_fig = <<>> /\ outcome = "idle"

\* one call of get_group_name(l_names)
GetGroupName ==
    /\ l_pc = "call"
    /\ l_result' = get_group_name(l_names)
    /\ l_pc' = "ret"
    /\ UNCHANGED l_names
    /\ UNCHANGED <<read_vars, plot_vars, sel_vars>>

LabelNext == GetGroupName

SpecLabel == LabelInit /\ [][LabelNext]_vars

----------------------------------------------------------------------------
(* Claims about the label deriver, checked under SpecLabel *)

\* the file name a path of the form AsPath(n) was made from; n itself otherwise
Stem(n) == IF StartsWith(n, <<"d", "/">>) THEN SubSeq(n, 3, Len(n) - 4) ELSE n

\* every order the caller could pass the same names in
Reorderings(names) ==
    {[k \in 1..Len(names) |-> names[p[k]]] : p \in Permutations(1..Len(names))}

\* C6: the label depends only on the set of names given: every permutation
\* of the same list of names yields the same string as the call made.
C6_OrderInsensitive ==
    l_pc = "ret" => \A q \in Reorderings(l_names) : get_group_name(q) = l_result

\* C7: for every non-empty collection of non-empty names, of equal or
\* different token counts, get_group_name terminates, raises nothing and
\* returns a non-empty label.
C7_ReturnsNonEmptyLabel ==
    l_pc = "ret" => l_result.exc = "" /\ l_result.val # <<>>

\* the label C8 describes for names of equal token count: the shared leading
\* tokens, the sorted distinct varying tokens, the shared trailing tokens
AlignedLabel(names) ==
    LET toks == [k \in 1..Len(names) |-> Split(Stem(names[k]))]
        differing == {i \in 1..Len(toks[1]) :
                         \E k \in 1..Len(names) : toks[k][i] # toks[1][i]}
        first == CHOOSE i \in differing : \A j \in differing : i <= j
        last == CHOOSE i \in differing : \A j \in differing : i >= j
        lead == Join(Slice(toks[1], 1, first - 1))
        vary == Join(SortedStrings({toks[k][i] : k \in 1..Len(names), i \in differing}))
        trail == Join(Slice(toks[1], last + 1, Len(toks[1])))
    IN  IF differing = {} THEN Stem(names[1])
        ELSE Join(SelectSeq(<<lead, vary, trail>>, LAMBDA part : part # <<>>))

SameTokenCount(names) ==
    \A k \in 1..Len(names) : Len(Split(Stem(names[k]))) = Len(Split(Stem(names[1])))

\* C8: for two or more names with the same number of underscore-separated
\* tokens, the label is the shared leading tokens, then the distinct varying
\* tokens in sorted order, then the shared trailing tokens, joined by
\* underscores with empty parts omitted.
C8_AlignedNamesLabel ==
    (l_pc = "ret" /\ Len(l_names) >= 2 /\ SameTokenCount(l_names))
        => l_result = Returned(AlignedLabel(l_names))

\* The same statement for names none of whose tokens holds a dot: it holds.
AlignedDotFreeNamesLabel ==
    (/\ l_pc = "ret" /\ Len(l_names) >= 2 /\ SameTokenCount(l_names)
     /\ \A k \in 1..Len(l_names) : FirstIdx(Stem(l_names[k]), ".") = 0)
        => l_result = Returned(AlignedLabel(l_names))

\* C9 as stated: for a collection holding exactly one name, get_group_name
\* returns that name unchanged, for any name.
C9_SingleNameUnchanged ==
    (l_pc = "ret" /\ Len(l_names) = 1) => l_result = Returned(l_names[1])

\* C9 as amended: for a collection holding exactly one name, get_group_name
\* returns the final path component of that name, extension included: what
\* follows the last "/" of the name, and the whole name when it holds no "/".
C9_SingleNameFinalComponent ==
    (l_pc = "ret" /\ Len(l_names) = 1) =>
        LET name == l_names[1]
            got == l_result.val
        IN  /\ l_result.exc = ""
            /\ FirstIdx(got, "/") = 0
            /\ EndsWith(name, got)
            /\ (Len(got) = Len(name) \/ name[Len(name) - Len(got)] = "/")

\* C9's case: a single name with a directory part has been labelled.
C9_Witness ==
    /\ l_pc = "ret" /\ Len(l_names) = 1
    /\ FirstIdx(l_names[1], "/") # 0
    /\ l_result.exc = "" /\ l_result.val # <<>>

----------------------------------------------------------------------------
(* Numbers: Python floats are modelled as fractions <<n, d>> in lowest      *)
(* terms with d > 0.                                                        *)

Abs(a) == IF a < 0 THEN -a ELSE a

RECURSIVE Gcd(_, _)
Gcd(a, b) == IF b = 0 THEN a ELSE Gcd(b, a % b)

\* n / d in lowest terms
Frac(n, d) ==
    LET g == Gcd(Abs(n), Abs(d))
        sgn == IF d < 0 THEN -1 ELSE 1
    IN  <<(sgn * n) \div g, (sgn * d) \div g>>

FracOfInt(n) == <<n, 1>>
FracAdd(p, q) == Frac(p[1] * q[2] + q[1] * p[2], p[2] * q[2])
FracLess(p, q) == p[1] * q[2] < q[1] * p[2]
FracLeq(p, q) == p[1] * q[2] <= q[1] * p[2]

RECURSIVE SumFracs(_)
SumFracs(s) == IF s = <<>> THEN <<0, 1>> ELSE FracAdd(Head(s), SumFracs(Tail(s)))

\* the largest r with r * r <= n, searched between lo and hi
RECURSIVE ISqrtIn(_, _, _)
ISqrtIn(n, lo, hi) ==
    IF lo >= hi THEN lo
    ELSE LET mid == (lo + hi + 1) \div 2
         IN  IF mid * mid <= n THEN ISqrtIn(n, mid, hi) ELSE ISqrtIn(n, lo, mid - 1)

\* (46340 is the largest root of a 32-bit integer)
ISqrt(n) == ISqrtIn(n, 0, Min2(n, 46340))

\* the square root of a fraction >= 0: exact when it is a fraction, and cut
\* to three decimals otherwise
FracSqrt(q) ==
    LET a == ISqrt(q[1])
        b == ISqrt(q[2])
    IN  IF a * a = q[1] /\ b * b = q[2] THEN <<a, b>>
        ELSE Frac(ISqrt((q[1] * 1000000) \div q[2]), 1000)

\* np.mean of a sequence of integers
np_mean(ys) == Frac(SumInts(ys), Len(ys))

\* np.mean of a sequence of fractions
np_mean_fracs(qs) ==
    LET t == SumFracs(qs) IN Frac(t[1], t[2] * Len(qs))

\* the population variance of a sequence of integers
np_var(ys) ==
    LET k == Len(ys)
        sq == [i \in 1..k |-> ys[i] * ys[i]]
    IN  Frac(k * SumInts(sq) - SumInts(ys) * SumInts(ys), k * k)

\* np.std: the population standard deviation (divides by k)
np_std(ys) == FracSqrt(np_var(ys))

----------------------------------------------------------------------------
(* The series parser: read_data *)

\* A line of a file, after line.split(): wide is len(parts) >= 4, dist is
\* parts[2].lower().startswith('distance'), and xok / yok say whether float()
\* accepts what is left of parts[1] / parts[3] once every character that is
\* not a digit, '.' or '-' is dropped; x and y are the floats it returns.
MkLine(wide, dist, xok, x, yok, y) ==
    [wide |-> wide, dist |-> dist, xok |-> xok, x |-> x, yok |-> yok, y |-> y]

\* x, y = [], []; is_distance = False
ReadStart == [x |-> <<>>, y |-> <<>>, is_distance |-> FALSE, exc |-> ""]

\* what read_data raises: DataError(msg), named by the head of its message
ReadRaised(msg) ==
    [exc |-> msg, x |-> <<>>, y |-> <<>>, y_last |-> <<>>,
     avg |-> <<0, 1>>, std |-> <<0, 1>>, is_distance |-> FALSE]

\* the body of `for line in lines:`
ReadLineStep(acc, line) ==
    IF ~line.wide THEN acc
    ELSE LET d == acc.is_distance \/ line.dist
         IN  IF ~line.xok \/ ~line.yok
             THEN [acc EXCEPT !.is_distance = d, !.exc = "Invalid data format"]
             ELSE [acc EXCEPT !.is_distance = d,
                              !.x = Append(acc.x, line.x),
                              !.y = Append(acc.y, line.y)]

\* round(n_points * 0.2) rounded up instead (a mutant)
CeilFifth(n) == (n + 4) \div 5

\* round(n_points * 0.2): n / 5 is never half way between two integers
RoundFifth(n) == (2 * n + 5) \div 10

AllZero(vals) == \A i \in 1..Len(vals) : vals[i] = 0

\* read_data after its loop, with the test of the y values left out (a mutant)
ReadFinishNoYCheck(acc) ==
    LET n_points == Len(acc.y)
        last_20_percent == RoundFifth(n_points)
        y_last == SubSeq(acc.y, n_points - last_20_percent + 1, n_points)
    IN  IF acc.x = <<>> \/ acc.y = <<>> THEN ReadRaised("No valid data points found")
        ELSE IF AllZero(acc.x) THEN ReadRaised("All x values are zero")
        ELSE IF n_points < 5 THEN ReadRaised("Not enough data points")
        ELSE IF last_20_percent < 1
             THEN ReadRaised("Not enough data points for 20% calculation")
        ELSE [exc |-> "", x |-> acc.x, y |-> acc.y, y_last |-> y_last,
              avg |-> np_mean(y_last), std |-> np_std(y_last),
              is_distance |-> acc.is_distance]

\* read_data after its loop: the checks, the tail window and its statistics
ReadFinish(acc) ==
    LET n_points == Len(acc.y)
        last_20_percent == RoundFifth(n_points)
        y_last == SubSeq(acc.y, n_points - last_20_percent + 1, n_points)
    IN  IF acc.x = <<>> \/ acc.y = <<>> THEN ReadRaised("No valid data points found")
        ELSE IF AllZero(acc.x) THEN ReadRaised("All x values are zero")
        ELSE IF AllZero(acc.y) THEN ReadRaised("All y values are zero")
        ELSE IF n_points < 5 THEN ReadRaised("Not enough data points")
        ELSE IF last_20_percent < 1
             THEN ReadRaised("Not enough data points for 20% calculation")
        ELSE [exc |-> "", x |-> acc.x, y |-> acc.y, y_last |-> y_last,
              avg |-> np_mean(y_last), std |-> np_std(y_last),
              is_distance |-> acc.is_distance]

\* the loop over the lines, from line k on
RECURSIVE ReadLines(_, _, _)
ReadLines(lines, k, acc) ==
    IF k > Len(lines) \/ acc.exc # "" THEN acc
    ELSE ReadLines(lines, k + 1, ReadLineStep(acc, lines[k]))

\* read_data(file) for a file [exists, lines]: a file of size 0 has no line
read_data(file) ==
    IF ~file.exists THEN ReadRaised("File not found")
    ELSE IF file.lines = <<>> THEN ReadRaised("File is empty")
    ELSE LET acc == ReadLines(file.lines, 1, ReadStart)
         IN  IF acc.exc # "" THEN ReadRaised(acc.exc) ELSE ReadFinish(acc)

----------------------------------------------------------------------------
(* read_data step by step, its file given line after line *)

\* the values a field of a line takes
SampleValues == {0, 1}

\* the lines a file is made of: a line with fewer than 4 parts, a line with a
\* field float() rejects, and lines with two numbers, marked distance or not
LineKinds ==
    {MkLine(FALSE, FALSE, TRUE, 0, TRUE, 0),
     MkLine(TRUE, FALSE, FALSE, 0, TRUE, 0),
     MkLine(TRUE, FALSE, TRUE, 0, FALSE, 0)}
    \cup {MkLine(TRUE, d, TRUE, x, TRUE, y) :
              d \in BOOLEAN, x \in SampleValues, y \in SampleValues}

ReadInit ==
    /\ r_pc = "open" /\ r_any = FALSE /\ r_acc = ReadStart
    /\ r_result = ReadRaised("NotCalled")
    /\ l_names = <<>> /\ l_result = <<>> /\ l_pc = "idle"
    /\ plot_files = <<>> /\ pc = "idle" /\ group_idx = 0 /\ plot_acc = <<>>
    /\ violin_names = NoNames /\ SelIdle
    /\ fig = <<>> /\ violin_fig = <<>> /\ outcome = "idle"

\* validate_file raises: the file does not exist
ReadNotFound ==
    /\ r_pc = "open"
    /\ r_result' = ReadRaised("File not found")
    /\ r_pc' = "done"
    /\ UNCHANGED <<r_any, r_acc, label_vars, plot_vars, sel_vars>>

\* validate_file raises: the file has size 0
ReadEmpty ==
    /\ r_pc = "open"
    /\ r_result' = ReadRaised("File is empty")
    /\ r_pc' = "done"
    /\ UNCHANGED <<r_any, r_acc, label_vars, plot_vars, sel_vars>>

\* validate_file passes and the file is opened
ReadOpen ==
    /\ r_pc = "open"
    /\ r_pc' = "lines"
    /\ UNCHANGED <<r_any, r_acc, r_result, label_vars, plot_vars, sel_vars>>

\* one turn of the loop over the lines
ReadLine ==
    /\ r_pc = "lines"
    /\ Len(r_acc.y) < MaxSamples
    /\ \E line \in LineKinds :
        LET acc == ReadLineStep(r_acc, line)
        IN  /\ r_acc' = acc
            /\ r_any' = TRUE
            /\ IF acc.exc # ""
               THEN r_pc' = "done" /\ r_result' = ReadRaised(acc.exc)
               ELSE UNCHANGED <<r_pc, r_result>>
    /\ UNCHANGED <<label_vars, plot_vars, sel_vars>>

\* the lines are over: the checks and the tail window
ReadEnd ==
    /\ r_pc = "lines"
    /\ r_any
    /\ r_result' = ReadFinish(r_acc)
    /\ r_pc' = "done"
    /\ UNCHANGED <<r_any, r_acc, label_vars, plot_vars, sel_vars>>

ReadNext == ReadNotFound \/ ReadEmpty \/ ReadOpen \/ ReadLine \/ ReadEnd

SpecRead == ReadInit /\ [][ReadNext]_vars

----------------------------------------------------------------------------
(* Claims about read_data, checked under SpecRead *)

\* read_data went through all the lines of its file and ran its checks
Collected == r_pc = "done" /\ r_any /\ r_acc.exc = ""

\* tail holds the last k values of y, k the integer nearest to len(y) / 5
IsLastFifth(tail, y) ==
    LET k == Len(tail)
        n == Len(y)
    IN  /\ Abs(5 * k - n) <= 2
        /\ k <= n
        /\ \A i \in 1..k : tail[i] = y[n - k + i]

\* C4 as stated: with N samples collected (N >= 1 here), N >= 5 gives the tail
\* window of the last round(N * 0.2) y-values, and N < 5 fails with "Not
\* enough data points" and no tail window.
C4_TailOrInsufficient ==
    (Collected /\ r_acc.y # <<>>) =>
        LET n == Len(r_acc.y)
        IN  /\ n >= 5 => r_result.exc = "" /\ IsLastFifth(r_result.y_last, r_acc.y)
            /\ n < 5 => r_result.exc = "Not enough data points"
                        /\ r_result.y_last = <<>>

\* C4 as amended: the same, for a file that gave at least one sample and whose
\* x values are not all zero and whose y values are not all zero (a file with
\* no sample fails with "No valid data points found" and one with an all-zero
\* axis with the all-zero error, whatever N is).
C4_TailOrInsufficientNonZero ==
    (Collected /\ r_acc.y # <<>> /\ ~AllZero(r_acc.x) /\ ~AllZero(r_acc.y)) =>
        LET n == Len(r_acc.y)
        IN  /\ n >= 5 => r_result.exc = "" /\ IsLastFifth(r_result.y_last, r_acc.y)
            /\ n < 5 => r_result.exc = "Not enough data points"
                        /\ r_result.y_last = <<>>

\* C4's case: a file of at least 8 samples was read and gave a tail of two.
C4_Witness ==
    /\ Collected /\ Len(r_acc.y) >= 8 /\ ~AllZero(r_acc.x) /\ ~AllZero(r_acc.y)
    /\ r_result.exc = "" /\ Len(r_result.y_last) = 2

\* C10: a file with at least one collected sample whose y-values are all zero
\* fails with the all-zero error, whatever its x-values and however many
\* samples it has; no series and no statistics are returned.
C10_AllZeroYRejected ==
    (Collected /\ r_acc.y # <<>> /\ AllZero(r_acc.y)) =>
        /\ r_result.exc \in {"All x values are zero", "All y values are zero"}
        /\ r_result.x = <<>> /\ r_result.y = <<>> /\ r_result.y_last = <<>>

\* C10's case: five or more samples, x not all zero, y all zero, rejected.
C10_Witness ==
    /\ Collected /\ Len(r_acc.y) >= 5 /\ AllZero(r_acc.y) /\ ~AllZero(r_acc.x)
    /\ r_result.exc = "All y values are zero"

\* tail holds the last k values of y, k the least integer >= len(y) / 5
IsLastCeilFifth(tail, y) ==
    LET k == Len(tail)
        n == Len(y)
    IN  /\ 5 * k >= n /\ 5 * k < n + 5
        /\ k <= n
        /\ \A i \in 1..k : tail[i] = y[n - k + i]

\* C11 as stated: the tail window of an accepted series of length N is its
\* last ceil(0.2 * N) y-values and is not empty, and read_data never fails
\* with "Not enough data points for 20% calculation".
C11_TailIsCeilFifth ==
    r_pc = "done" =>
        /\ r_result.exc # "Not enough data points for 20% calculation"
        /\ r_result.exc = "" =>
              /\ r_result.y_last # <<>>
              /\ IsLastCeilFifth(r_result.y_last, r_result.y)

\* C11 as amended: the tail window of an accepted series of length N is its
\* last round(0.2 * N) y-values (the integer nearest to N / 5) and is not
\* empty, and read_data never fails with "Not enough data points for 20%
\* calculation".
C11_TailIsNearestFifth ==
    r_pc = "done" =>
        /\ r_result.exc # "Not enough data points for 20% calculation"
        /\ r_result.exc = "" =>
              /\ r_result.y_last # <<>>
              /\ IsLastFifth(r_result.y_last, r_result.y)

\* C11's case: an accepted series of 6 or 7 samples, whose tail is one sample
\* where ceil(0.2 * N) is 2.
C11_Witness ==
    /\ r_pc = "done" /\ r_result.exc = ""
    /\ Len(r_result.y) \in {6, 7} /\ Len(r_result.y_last) = 1

----------------------------------------------------------------------------
(* The files create_plot is run on *)

\* a well-formed line: four parts, two numbers
DataLine(x, y, dist) == MkLine(TRUE, dist, TRUE, x, TRUE, y)

\* a file of well-formed lines with x = 1, 2, ... and the y values ys
DataFile(ys, dist) ==
    [exists |-> TRUE, lines |-> [i \in 1..Len(ys) |-> DataLine(i, ys[i], dist)]]

FileIds == {"A", "B", "C", "D", "E"}

\* The directory: A and B have 10 samples (tails [8,10] and [12,14]), C has 5
\* samples and a negative tail, D has 5 samples marked as distances and a
\* longer name, E has 4 samples (read_data rejects it).
Disk ==
    [f \in FileIds |->
        CASE f = "A" -> [path |-> AsPath(<<"a", "_", "w">>),
                         file |-> DataFile(<<5, 5, 5, 5, 5, 5, 5, 5, 8, 10>>, FALSE)]
          [] f = "B" -> [path |-> AsPath(<<"b", "_", "w">>),
                         file |-> DataFile(<<9, 9, 9, 9, 9, 9, 9, 9, 12, 14>>, FALSE)]
          [] f = "C" -> [path |-> AsPath(<<"c", "_", "w">>),
                         file |-> DataFile(<<3, 3, 3, 3, -2>>, FALSE)]
          [] f = "D" -> [path |-> AsPath(<<"c", "_", "w", "_", "x">>),
                         file |-> DataFile(<<2, 2, 2, 2, 4>>, TRUE)]
          [] f = "E" -> [path |-> AsPath(<<"e", "_", "w">>),
                         file |-> DataFile(<<1, 1, 1, 1>>, FALSE)]]

\* read_data(f) for every file of the directory
Parsed == [f \in FileIds |-> read_data(Disk[f].file)]

\* the paths of a list of files
PathsOf(fs) == [k \in 1..Len(fs) |-> Disk[fs[k]].path]

----------------------------------------------------------------------------
(* The coordinator: create_plot *)

\* len(pio.templates['seaborn'].layout.colorway)
ColorwayLen == 10

\* 1000 * p for the p-values scipy.stats.ttest_ind returns, on both sides of
\* 0.05; nan is TRUE when it returns nan
PValues == {[nan |-> TRUE, milli |-> 0], [nan |-> FALSE, milli |-> 49],
            [nan |-> FALSE, milli |-> 50]}

\* str(i) for the tick labels
DigitText(i) == <<"1", "2", "3", "4", "5", "6", "7", "8", "9">>[i]

RECURSIVE Concat(_)
Concat(ss) == IF ss = <<>> THEN <<>> ELSE Head(ss) \o Concat(Tail(ss))

\* max(s) and min(s) for a non-empty sequence of integers
MaxOf(s) == CHOOSE m \in Range(s) : \A v \in Range(s) : v <= m
MinOf(s) == CHOOSE m \in Range(s) : \A v \in Range(s) : m <= v

\* the loop over the files of a group: the files that exist and that
\* read_data accepts (valid_files), in order
ValidFiles(group) ==
    SelectSeq(group, LAMBDA f : Disk[f].file.exists /\ Parsed[f].exc = "")

\* all_data, all_avgs, all_stds of a group
GroupData(group) ==
    LET v == ValidFiles(group) IN [k \in 1..Len(v) |-> Parsed[v[k]]]

\* np.mean(rows, axis=0) raises unless the rows have one length
Ragged(rows) == \E k \in 1..Len(rows) : Len(rows[k]) # Len(rows[1])

\* np.mean(rows, axis=0) of rows of one length
ElementwiseMean(rows) ==
    [i \in 1..Len(rows[1]) |->
        Frac(SumInts([k \in 1..Len(rows) |-> rows[k][i]]), Len(rows))]

\* the trend trace of a group with valid files raises: np.mean on rows of
\* different lengths, or get_group_name
GroupRaises(group) ==
    LET d == GroupData(group)
    IN  \/ Len(d) > 1 /\ Ragged([k \in 1..Len(d) |-> d[k].y])
        \/ get_group_name(PathsOf(ValidFiles(group))).exc # ""

\* go.Scatter(...) of a group with valid files
ScatterTrace(group) ==
    LET d == GroupData(group)
        group_name == get_group_name(PathsOf(ValidFiles(group))).val
    IN  IF Len(d) > 1
        THEN [x |-> d[1].x, y |-> ElementwiseMean([k \in 1..Len(d) |-> d[k].y]),
              name |-> group_name]
        ELSE [x |-> d[1].x, y |-> [i \in 1..Len(d[1].y) |-> FracOfInt(d[1].y[i])],
              name |-> group_name]

\* the tail samples of a group with valid files: np.concatenate of the
\* members' tails, or the tail of its only member
GroupTail(group) ==
    LET d == GroupData(group)
    IN  IF Len(d) > 1 THEN Concat([k \in 1..Len(d) |-> d[k].y_last])
        ELSE d[1].y_last

\* go.Violin(...) of a group with valid files
ViolinTrace(group, idx) ==
    [y |-> GroupTail(group),
     name |-> get_group_name(PathsOf(ValidFiles(group))).val,
     color |-> idx % ColorwayLen,
     x0 |-> idx]

\* the annotation beside the violin of a group (at x = idx + 0.3)
ViolinAnnotation(group, idx) ==
    LET d == GroupData(group)
        tail == GroupTail(group)
    IN  [x0 |-> idx, y |-> MaxOf(tail), color |-> idx % ColorwayLen,
         avg |-> IF Len(d) > 1 THEN np_mean(tail) ELSE d[1].avg,
         std |-> IF Len(d) > 1 THEN np_std(tail) ELSE d[1].std]

\* combined.extend(all) with the mean of the group's values instead of the
\* values (a mutant)
ExtendWithGroupMean(combined, all) == Append(combined, np_mean_fracs(all))

\* combined_avgs.extend(all_avgs), combined_stds.extend(all_stds)
Extend(combined, all) == combined \o all

\* the locals before the loop over the groups
AccStart ==
    [has_valid_data |-> FALSE, combined_avgs |-> <<>>, combined_stds |-> <<>>,
     singular |-> <<>>, violin_colors |-> <<>>, violin_y_last |-> <<>>,
     is_distance |-> FALSE]

\* the locals after a group with valid files
AccAfter(a, all_files, group, idx) ==
    LET d == GroupData(group)
        all_avgs == [k \in 1..Len(d) |-> d[k].avg]
        all_stds == [k \in 1..Len(d) |-> d[k].std]
    IN  [has_valid_data |-> TRUE,
         combined_avgs |-> Extend(a.combined_avgs, all_avgs),
         combined_stds |-> Extend(a.combined_stds, all_stds),
         singular |-> IF Len(all_files) = 1 /\ Len(d) = 1
                      THEN <<all_avgs[1], all_stds[1]>> ELSE a.singular,
         violin_colors |-> Append(a.violin_colors, idx % ColorwayLen),
         violin_y_last |-> Append(a.violin_y_last, GroupTail(group)),
         is_distance |-> a.is_distance \/ \E k \in 1..Len(d) : d[k].is_distance]

\* is_combined without the test of the size of a single group (a mutant)
IsCombinedGroupsOnly(all_files) == Len(all_files) > 1

\* is_combined (and is_combined_violin)
IsCombined(all_files) ==
    Len(all_files) > 1 \/ (Len(all_files) = 1 /\ Len(all_files[1]) > 1)

\* the statistics annotation placed on both figures
StatsAnnotations(a, all_files) ==
    (IF IsCombined(all_files) /\ a.combined_avgs # <<>> /\ a.combined_stds # <<>>
     THEN <<[kind |-> "combined", avg |-> np_mean_fracs(a.combined_avgs),
             std |-> np_mean_fracs(a.combined_stds)]>>
     ELSE <<>>)
    \o (IF ~IsCombined(all_files) /\ a.singular # <<>>
        THEN <<[kind |-> "singular", avg |-> a.singular[1], std |-> a.singular[2]]>>
        ELSE <<>>)

FracMax0(q) == IF q[1] < 0 THEN <<0, 1>> ELSE q

\* yaxis_range: <<>> is None
YAxisRange(a, all_files, traces) ==
    LET all_violin_y == Concat([k \in 1..Len(traces) |-> traces[k].y])
    IN  IF all_violin_y # <<>> /\ IsCombined(all_files)
        THEN LET max_y == MaxOf(all_violin_y)
                 min_y == MinOf(all_violin_y)
             IN  IF a.is_distance
                 THEN <<FracMax0(Frac(19 * min_y, 20)), Frac(21 * max_y, 20)>>
                 ELSE <<FracMax0(FracOfInt(min_y - 20)), FracOfInt(max_y + 25)>>
        ELSE <<>>

\* ticktext = violin_names if violin_names else [str(i+1) for i in ...]
TickText(names, all_files) ==
    IF ~names.none /\ names.names # <<>> THEN names.names
    ELSE [k \in 1..Len(all_files) |-> DigitText(k)]

\* colored_ticktext: zip(violin_colors, ticktext) stops at the shorter list
ColoredTickText(a, all_files, names) ==
    LET ticktext == TickText(names, all_files)
        n == Min2(Len(a.violin_colors), Len(ticktext))
    IN  [k \in 1..n |-> [color |-> a.violin_colors[k], text |-> ticktext[k]]]

\* the p-value annotations, red when p_val <= 0.05 (a mutant)
ComparisonsLeq(a, all_files, ps) ==
    IF Len(a.violin_y_last) > 1
    THEN [i \in 1..(Len(a.violin_y_last) - 1) |->
             [y1 |-> a.violin_y_last[i], y2 |-> a.violin_y_last[i + 1],
              p_val |-> ps[i],
              color |-> IF ~ps[i].nan /\ ps[i].milli <= 50 THEN "red" ELSE "black",
              x |-> Frac(2 * (i - 1) + 1, 2 * (Len(all_files) - 1))]]
    ELSE <<>>

\* the p-value annotations: one for every two consecutive entries of
\* violin_y_last, red when p_val < 0.05
Comparisons(a, all_files, ps) ==
    IF Len(a.violin_y_last) > 1
    THEN [i \in 1..(Len(a.violin_y_last) - 1) |->
             [y1 |-> a.violin_y_last[i], y2 |-> a.violin_y_last[i + 1],
              p_val |-> ps[i],
              color |-> IF ~ps[i].nan /\ ps[i].milli < 50 THEN "red" ELSE "black",
              x |-> Frac(2 * (i - 1) + 1, 2 * (Len(all_files) - 1))]]
    ELSE <<>>

\* the p-values ttest_ind can return for the comparisons: nan when a sample
\* has fewer than two values
PValueChoices(a) ==
    {ps \in [1..(Len(a.violin_y_last) - 1) -> PValues] :
        \A i \in 1..(Len(a.violin_y_last) - 1) :
            (Len(a.violin_y_last[i]) < 2 \/ Len(a.violin_y_last[i + 1]) < 2)
                => ps[i].nan}

\* create_output_filename(all_files, ...) without the plot type and ".png"
OutputName(all_files) ==
    LET flat == Concat(all_files)
    IN  IF Len(flat) = 1 THEN Returned(base_name_of(Disk[flat[1]].path))
        ELSE get_group_name(PathsOf(flat))

----------------------------------------------------------------------------
(* create_plot, one group after the other *)

\* the groups handed to create_plot: MaxGroups groups at most, of 1 to
\* MaxGroupFiles files each, MaxTotalFiles files at most in all
MaxGroups == 3
MaxGroupFiles == 2
MaxTotalFiles == 3

GroupShapes ==
    UNION {{sh \in [1..n -> 1..MaxGroupFiles] : SumInts(sh) <= MaxTotalFiles} :
              n \in 0..MaxGroups}

\* the groups of sizes sh whose files, one group after the other, are fs
GroupsOfShape(sh, fs) ==
    [k \in 1..Len(sh) |->
        LET before == SumInts(SubSeq(sh, 1, k - 1))
        IN  SubSeq(fs, before + 1, before + sh[k])]

\* the override names main hands over for n groups
NameText(k) == <<"n1", "n2", "n3", "n4", "n5", "n6", "n7", "n8", "n9">>[k]
OverrideNames(n) == [none |-> FALSE, names |-> [k \in 1..n |-> NameText(k)]]

\* go.Figure()
EmptyFig == [traces |-> <<>>, stats |-> <<>>]

EmptyViolinFig ==
    [traces |-> <<>>, annotations |-> <<>>, stats |-> <<>>, yaxis_range |-> <<>>,
     xaxis_groups |-> 0, ticktext |-> <<>>, tickvals |-> <<>>, comparisons |-> <<>>]

\* the call create_plot(plot_files, ...), before the loop over the groups
Init ==
    /\ \E sh \in GroupShapes :
         \E fs \in [1..SumInts(sh) -> FileIds] : plot_files = GroupsOfShape(sh, fs)
    /\ violin_names \in IF plot_files = <<>> THEN {NoNames}
                       ELSE {NoNames, OverrideNames(Len(plot_files))}
    /\ pc = "groups"
    /\ group_idx = 0
    /\ plot_acc = AccStart
    /\ fig = EmptyFig
    /\ violin_fig = EmptyViolinFig
    /\ outcome = "running"
    /\ l_names = <<>> /\ l_result = Raised("NotCalled") /\ l_pc = "idle"
    /\ r_pc = "idle" /\ r_any = FALSE /\ r_acc = <<>> /\ r_result = <<>>
    /\ SelIdle

\* if not files: return
NoFiles ==
    /\ pc = "groups" /\ plot_files = <<>>
    /\ pc' = "done"
    /\ outcome' = "no_files"
    /\ UNCHANGED <<plot_files, violin_names, group_idx, plot_acc, fig, violin_fig>>
    /\ UNCHANGED <<label_vars, read_vars, sel_vars>>

\* a group none of whose files is valid: continue
GroupSkipped ==
    /\ pc = "groups" /\ group_idx < Len(plot_files)
    /\ ValidFiles(plot_files[group_idx + 1]) = <<>>
    /\ group_idx' = group_idx + 1
    /\ UNCHANGED <<plot_files, violin_names, pc, plot_acc, fig, violin_fig, outcome>>
    /\ UNCHANGED <<label_vars, read_vars, sel_vars>>

\* a group with valid files: one trace on each figure
GroupPlotted ==
    /\ pc = "groups" /\ group_idx < Len(plot_files)
    /\ LET group == plot_files[group_idx + 1]
       IN  /\ ValidFiles(group) # <<>>
           /\ ~GroupRaises(group)
           /\ plot_acc' = AccAfter(plot_acc, plot_files, group, group_idx)
           /\ fig' = [fig EXCEPT !.traces = Append(@, ScatterTrace(group))]
           /\ violin_fig' =
                 [violin_fig EXCEPT
                     !.traces = Append(@, ViolinTrace(group, group_idx)),
                     !.annotations = Append(@, ViolinAnnotation(group, group_idx))]
    /\ group_idx' = group_idx + 1
    /\ UNCHANGED <<plot_files, violin_names, pc, outcome>>
    /\ UNCHANGED <<label_vars, read_vars, sel_vars>>

\* a group with valid files whose trend trace raises: except Exception
GroupAborts ==
    /\ pc = "groups" /\ group_idx < Len(plot_files)
    /\ LET group == plot_files[group_idx + 1]
       IN  /\ ValidFiles(group) # <<>>
           /\ GroupRaises(group)
    /\ pc' = "done"
    /\ outcome' = "error"
    /\ UNCHANGED <<plot_files, violin_names, group_idx, plot_acc, fig, violin_fig>>
    /\ UNCHANGED <<label_vars, read_vars, sel_vars>>

\* if not has_valid_data: return
NoValidData ==
    /\ pc = "groups" /\ plot_files # <<>> /\ group_idx = Len(plot_files)
    /\ ~plot_acc.has_valid_data
    /\ pc' = "done"
    /\ outcome' = "no_data"
    /\ UNCHANGED <<plot_files, violin_names, group_idx, plot_acc, fig, violin_fig>>
    /\ UNCHANGED <<label_vars, read_vars, sel_vars>>

\* the figures after the loop: statistics, axes, tick labels, comparisons
FinishedFig == [fig EXCEPT !.stats = StatsAnnotations(plot_acc, plot_files)]

FinishedViolinFig(ps) ==
    [violin_fig EXCEPT
        !.stats = StatsAnnotations(plot_acc, plot_files),
        !.yaxis_range = YAxisRange(plot_acc, plot_files, violin_fig.traces),
        !.xaxis_groups = Len(plot_files),
        !.ticktext = ColoredTickText(plot_acc, plot_files, violin_names),
        !.tickvals = [k \in 1..Len(plot_files) |-> k - 1],
        !.comparisons = Comparisons(plot_acc, plot_files, ps)]

\* the rest of create_plot when both write_image calls are reached
Save ==
    /\ pc = "groups" /\ plot_files # <<>> /\ group_idx = Len(plot_files)
    /\ plot_acc.has_valid_data
    /\ OutputName(plot_files).exc = ""
    /\ \E ps \in PValueChoices(plot_acc) :
          /\ fig' = FinishedFig
          /\ violin_fig' = FinishedViolinFig(ps)
    /\ pc' = "done"
    /\ outcome' = "saved"
    /\ UNCHANGED <<plot_files, violin_names, group_idx, plot_acc>>
    /\ UNCHANGED <<label_vars, read_vars, sel_vars>>

\* the rest of create_plot when create_output_filename raises
SaveAborts ==
    /\ pc = "groups" /\ plot_files # <<>> /\ group_idx = Len(plot_files)
    /\ plot_acc.has_valid_data
    /\ OutputName(plot_files).exc # ""
    /\ \E ps \in PValueChoices(plot_acc) :
          /\ fig' = FinishedFig
          /\ violin_fig' = FinishedViolinFig(ps)
    /\ pc' = "done"
    /\ outcome' = "error"
    /\ UNCHANGED <<plot_files, violin_names, group_idx, plot_acc>>
    /\ UNCHANGED <<label_vars, read_vars, sel_vars>>

Next ==
    \/ NoFiles
    \/ GroupSkipped
    \/ GroupPlotted
    \/ GroupAborts
    \/ NoValidData
    \/ Save
    \/ SaveAborts

Spec == Init /\ [][Next]_vars

----------------------------------------------------------------------------
(* Claims about create_plot *)

\* the groups with at least one successfully parsed file, in caller order
ValidGroups == SelectSeq(plot_files, LAMBDA g : ValidFiles(g) # <<>>)

\* the tail windows of the successfully parsed files of a group, one after
\* the other in file order
ExpectedTail(group) ==
    Concat([k \in 1..Len(ValidFiles(group)) |-> Parsed[ValidFiles(group)[k]].y_last])

\* the successfully parsed files of all groups
AllParsedFiles ==
    Concat([g \in 1..Len(plot_files) |-> ValidFiles(plot_files[g])])

\* C1: whenever at least one file of the groups parses, create_plot produces
\* both scenes, each with one trace for every group that has a parsed file.
C1_ScenesForEveryValidGroup ==
    (pc = "done" /\ ValidGroups # <<>>)
        => /\ outcome = "saved"
           /\ Len(fig.traces) = Len(ValidGroups)
           /\ Len(violin_fig.traces) = Len(ValidGroups)

\* The scenes create_plot does write have one trace for every group with a
\* parsed file: files that fail to parse and groups without a valid file are
\* left out and stop nothing.
SavedScenesForEveryValidGroup ==
    outcome = "saved"
        => /\ Len(fig.traces) = Len(ValidGroups)
           /\ Len(violin_fig.traces) = Len(ValidGroups)

\* Files that fail to parse never end the run: a run ends in the handler of
\* create_plot only when a trend trace or the output name raises.
ParseFailuresAreLocal ==
    outcome = "error"
        => \/ \E g \in 1..Len(plot_files) :
                 ValidFiles(plot_files[g]) # <<>> /\ GroupRaises(plot_files[g])
           \/ OutputName(plot_files).exc # ""

\* C2: the distribution scene has one trace per group with a parsed file, in
\* group order, holding the members' tail windows concatenated in file order
\* (the tail window itself for a single member).
C2_DistributionTraces ==
    (pc = "done" /\ ValidGroups # <<>>)
        => /\ outcome = "saved"
           /\ [k \in 1..Len(violin_fig.traces) |-> violin_fig.traces[k].y]
                 = [k \in 1..Len(ValidGroups) |-> ExpectedTail(ValidGroups[k])]

\* The distribution scenes create_plot does write hold these traces.
SavedDistributionTraces ==
    outcome = "saved"
        => [k \in 1..Len(violin_fig.traces) |-> violin_fig.traces[k].y]
              = [k \in 1..Len(ValidGroups) |-> ExpectedTail(ValidGroups[k])]

\* C3: a combined statistics annotation reports the mean of the per-file
\* tail means and the mean of the per-file tail standard deviations, over
\* every successfully parsed file of every group, each file counted once.
C3_CombinedIsMeanOfFileStats ==
    LET means == [k \in 1..Len(AllParsedFiles) |->
                     np_mean(Parsed[AllParsedFiles[k]].y_last)]
        stds == [k \in 1..Len(AllParsedFiles) |->
                    np_std(Parsed[AllParsedFiles[k]].y_last)]
    IN  pc = "done" =>
          \A scene \in {fig.stats, violin_fig.stats} :
             \A k \in 1..Len(scene) :
                scene[k].kind = "combined"
                   => /\ scene[k].avg = np_mean_fracs(means)
                      /\ scene[k].std = np_mean_fracs(stds)

\* a saved run with a file that failed to parse whose combined annotation
\* differs, mean and deviation, from the statistics of the pooled samples
C3_Witness ==
    /\ outcome = "saved"
    /\ \E g \in 1..Len(plot_files) : ValidFiles(plot_files[g]) # plot_files[g]
    /\ fig.stats # <<>> /\ fig.stats[1].kind = "combined"
    /\ LET pooled == Concat([k \in 1..Len(ValidGroups) |-> ExpectedTail(ValidGroups[k])])
       IN  /\ fig.stats[1].avg # np_mean(pooled)
           /\ fig.stats[1].std # np_std(pooled)

\* C5: with n >= 2 groups with valid data create_plot computes n - 1
\* comparisons, the i-th between the tails of the i-th and (i+1)-th plotted
\* groups, and none with fewer than 2 such groups.
C5_AdjacentComparisons ==
    pc = "done" =>
       LET n == Len(ValidGroups)
           cs == violin_fig.comparisons
       IN  /\ Len(cs) = IF n >= 2 THEN n - 1 ELSE 0
           /\ \A i \in 1..Len(cs) :
                 /\ cs[i].y1 = ExpectedTail(ValidGroups[i])
                 /\ cs[i].y2 = ExpectedTail(ValidGroups[i + 1])

\* The runs that reach the comparisons compute them between adjacent
\* plotted groups only.
ReachedAdjacentComparisons ==
    (pc = "done" /\ outcome # "error") =>
       LET n == Len(ValidGroups)
           cs == violin_fig.comparisons
       IN  /\ Len(cs) = IF n >= 2 THEN n - 1 ELSE 0
           /\ \A i \in 1..Len(cs) :
                 /\ cs[i].y1 = ExpectedTail(ValidGroups[i])
                 /\ cs[i].y2 = ExpectedTail(ValidGroups[i + 1])

\* the trend series of a group with valid files as the spec describes it: the
\* x-values of the first valid member and, at each index, the mean of the
\* valid members' y-values at that index
ExpectedTrend(group) ==
    LET v == ValidFiles(group)
        x == Parsed[v[1]].x
    IN  [x |-> x,
         y |-> [i \in 1..Len(x) |->
                   LET having == {k \in 1..Len(v) : i <= Len(Parsed[v[k]].y)}
                       pick == SelectSeq(v, LAMBDA f : i <= Len(Parsed[f].y))
                   IN  Frac(SumInts([k \in 1..Len(pick) |-> Parsed[pick[k]].y[i]]),
                            Cardinality(having))]]

\* C12: the trend scene holds, for every group with valid files, the series
\* with the x-values of the first valid member and the elementwise mean of
\* the valid members' y-values (the file's own x and y for one member),
\* whatever the lengths of the members' series.
C12_TrendSeries ==
    pc = "done" =>
       /\ Len(fig.traces) = Len(ValidGroups)
       /\ \A k \in 1..Len(fig.traces) :
             /\ fig.traces[k].x = ExpectedTrend(ValidGroups[k]).x
             /\ fig.traces[k].y = ExpectedTrend(ValidGroups[k]).y

\* The trend scenes create_plot does write hold these series.
SavedTrendSeries ==
    outcome = "saved" =>
       /\ Len(fig.traces) = Len(ValidGroups)
       /\ \A k \in 1..Len(fig.traces) :
             /\ fig.traces[k].x = ExpectedTrend(ValidGroups[k]).x
             /\ fig.traces[k].y = ExpectedTrend(ValidGroups[k]).y

\* C13: a comparison is red exactly when its p-value is below 0.05 (0.049 is
\* red, 0.05 and nan are not), and whatever the p-values are, every group
\* with valid files keeps its trace and its tail samples in both scenes.
C13_RedIffBelowThreshold ==
    (pc = "done" /\ violin_fig.comparisons # <<>>) =>
       /\ \A i \in 1..Len(violin_fig.comparisons) :
             LET c == violin_fig.comparisons[i]
             IN  /\ c.color \in {"red", "black"}
                 /\ c.color = "red" <=> (~c.p_val.nan /\ c.p_val.milli * 20 < 1000)
       /\ Len(fig.traces) = Len(ValidGroups)
       /\ [k \in 1..Len(violin_fig.traces) |-> violin_fig.traces[k].y]
             = [k \in 1..Len(ValidGroups) |-> ExpectedTail(ValidGroups[k])]

\* C13's case: a saved run with a comparison of p = 0.049 in red beside one
\* of p = 0.05 in black.
C13_Witness ==
    /\ outcome = "saved"
    /\ \E i, j \in 1..Len(violin_fig.comparisons) :
          /\ violin_fig.comparisons[i].p_val = [nan |-> FALSE, milli |-> 49]
          /\ violin_fig.comparisons[i].color = "red"
          /\ violin_fig.comparisons[j].p_val = [nan |-> FALSE, milli |-> 50]
          /\ violin_fig.comparisons[j].color = "black"

\* C14: a trend scene that is produced carries exactly one statistics block:
\* the singular one, with the file's own tail mean and deviation, exactly when
\* the input is one group of one file, and the combined one exactly when there
\* is more than one group or a group of several files.
C14_OneStatisticsBlock ==
    outcome = "saved" =>
       LET one_file == Len(plot_files) = 1 /\ Len(plot_files[1]) = 1
           several == \/ Len(plot_files) > 1
                      \/ \E g \in 1..Len(plot_files) : Len(plot_files[g]) > 1
       IN  /\ Len(fig.stats) = 1
           /\ fig.stats[1].kind \in {"singular", "combined"}
           /\ fig.stats[1].kind = "singular" <=> one_file
           /\ fig.stats[1].kind = "combined" <=> several
           /\ one_file =>
                 /\ fig.stats[1].avg = np_mean(Parsed[plot_files[1][1]].y_last)
                 /\ fig.stats[1].std = np_std(Parsed[plot_files[1][1]].y_last)

\* C14's case: one group of two files of which one parses; the block is the
\* combined one although a single file was plotted.
C14_Witness ==
    /\ outcome = "saved"
    /\ Len(plot_files) = 1 /\ Len(plot_files[1]) = 2
    /\ Len(ValidFiles(plot_files[1])) = 1
    /\ Len(fig.stats) = 1 /\ fig.stats[1].kind = "combined"

\* a saved run of one group of one file, with the singular block
SingularBlockShown ==
    /\ outcome = "saved"
    /\ Len(plot_files) = 1 /\ Len(plot_files[1]) = 1
    /\ Len(fig.stats) = 1 /\ fig.stats[1].kind = "singular"

----------------------------------------------------------------------------
(* The selection prompt: process_selection and the branch of main that calls *)
(* it                                                                        *)

\* the longest selection typed, and the longest answer to the names prompt
MaxSelLen == 4
MaxNameInput == 3

\* s.split(sep) for a one-character separator
RECURSIVE SplitAt(_, _)
SplitAt(s, sep) ==
    LET i == FirstIdx(s, sep)
    IN  IF i = 0 THEN <<s>>
        ELSE <<SubSeq(s, 1, i - 1)>> \o SplitAt(SubSeq(s, i + 1, Len(s)), sep)

\* s.strip()
RECURSIVE Strip(_)
Strip(s) ==
    IF s # <<>> /\ Head(s) = " " THEN Strip(Tail(s))
    ELSE IF s # <<>> /\ s[Len(s)] = " " THEN Strip(SubSeq(s, 1, Len(s) - 1))
    ELSE s

\* sub in s
Contains(s, sub) ==
    \E i \in 0..(Len(s) - Len(sub)) : SubSeq(s, i + 1, i + Len(sub)) = sub

Digits == <<"0", "1", "2", "3", "4", "5", "6", "7", "8", "9">>

\* x.isdigit(): false for ''
IsDigit(x) == x # <<>> /\ \A i \in 1..Len(x) : \E d \in 1..10 : Digits[d] = x[i]

\* int(x) for a string of digits
RECURSIVE ParseInt(_)
ParseInt(x) ==
    IF x = <<>> THEN 0
    ELSE 10 * ParseInt(SubSeq(x, 1, Len(x) - 1))
         + (CHOOSE d \in 1..10 : Digits[d] = x[Len(x)]) - 1

\* current_files: the sorted .txt names of the directory
Listing == <<"A", "B", "C", "D", "E">>

\* file_errors: the files read_data rejected when main validated them
FileErrors == {f \in FileIds : Parsed[f].exc # ""}

\* the files one comma-separated entry x of a group selects (x holds no quote)
SelectEntry(entry, files) ==
    LET x == Strip(entry)
    IN  IF IsDigit(x)
        THEN LET idx == ParseInt(x) - 1
             IN  IF 0 <= idx /\ idx < Len(files) THEN <<files[idx + 1]>> ELSE <<>>
        ELSE LET txt == <<".", "t", "x", "t">>
                 name == IF EndsWith(x, txt) THEN x ELSE x \o txt
                 exact == SelectSeq(files, LAMBDA f : basename(Disk[f].path) = name)
                 partial == SelectSeq(files,
                                LAMBDA f : Contains(basename(Disk[f].path), name))
             IN  IF exact # <<>> THEN exact ELSE partial

\* selected, for a group that is not empty
SelectGroup(group, files) ==
    LET entries == SplitAt(group, ",")
    IN  Concat([k \in 1..Len(entries) |-> SelectEntry(entries[k], files)])

\* violin_names that is not compared with the number of groups (a mutant)
NamesUnchecked(name_input, groups) ==
    IF name_input = <<>> THEN NoNames
    ELSE LET names == SplitAt(name_input, ",")
         IN  [none |-> FALSE, names |-> [k \in 1..Len(names) |-> Strip(names[k])]]

\* violin_names after the prompt: None for an empty answer and for a number
\* of names that is not len(groups)
NamesFor(name_input, groups) ==
    IF name_input = <<>> THEN NoNames
    ELSE LET names == SplitAt(name_input, ",")
         IN  IF Len(names) # Len(groups) THEN NoNames
             ELSE [none |-> FALSE, names |-> [k \in 1..Len(names) |-> Strip(names[k])]]

\* selected_files: the groups without the files that have a recorded error,
\* and without the groups this leaves empty
SelectedFiles(sel) ==
    LET kept == [k \in 1..Len(sel) |-> SelectSeq(sel[k], LAMBDA f : f \notin FileErrors)]
    IN  SelectSeq(kept, LAMBDA g : g # <<>>)

\* the strings of length 1..n over the characters of cs
RECURSIVE StringsUpTo(_, _)
StringsUpTo(cs, n) ==
    IF n = 0 THEN {<<>>}
    ELSE LET shorter == StringsUpTo(cs, n - 1)
         IN  shorter \cup {Append(t, c) : t \in shorter, c \in cs}

\* the selections main hands to process_selection: they hold ',' or ';'
SelInputs ==
    {t \in StringsUpTo({"1", "5", "9", ",", ";"}, MaxSelLen) :
        FirstIdx(t, ",") > 0 \/ FirstIdx(t, ";") > 0}

\* the answers to the names prompt
NameInputs == StringsUpTo({"n", ","}, MaxNameInput)

SelInit ==
    /\ sel_input \in SelInputs
    /\ sel_pc = "split"
    /\ sel_groups = <<>> /\ sel_names = NoNames /\ sel_idx = 0 /\ sel_result = <<>>
    /\ sel_call = [files |-> <<>>, violin_names |-> NoNames]
    /\ l_names = <<>> /\ l_result = Raised("NotCalled") /\ l_pc = "idle"
    /\ r_pc = "idle" /\ r_any = FALSE /\ r_acc = <<>> /\ r_result = <<>>
    /\ plot_files = <<>> /\ pc = "idle" /\ group_idx = 0 /\ plot_acc = <<>>
    /\ fig = <<>> /\ violin_fig = <<>> /\ outcome = "idle"
    /\ violin_names = NoNames

\* groups = [g.strip() for g in selection.split(';')]
SelSplit ==
    /\ sel_pc = "split"
    /\ LET groups == SplitAt(sel_input, ";")
       IN  /\ sel_groups' = [k \in 1..Len(groups) |-> Strip(groups[k])]
           /\ sel_pc' = IF Len(groups) > 1 THEN "ask" ELSE "groups"
    /\ UNCHANGED <<sel_input, sel_names, sel_idx, sel_result, sel_call>>
    /\ UNCHANGED <<label_vars, read_vars, plot_vars>>

\* the names prompt, asked when there is more than one group
SelAskNames ==
    /\ sel_pc = "ask"
    /\ \E name_input \in NameInputs : sel_names' = NamesFor(name_input, sel_groups)
    /\ sel_pc' = "groups"
    /\ UNCHANGED <<sel_input, sel_groups, sel_idx, sel_result, sel_call>>
    /\ UNCHANGED <<label_vars, read_vars, plot_vars>>

\* one turn of `for group in groups`
SelGroup ==
    /\ sel_pc = "groups" /\ sel_idx < Len(sel_groups)
    /\ LET group == sel_groups[sel_idx + 1]
           selected == SelectGroup(group, Listing)
       IN  sel_result' = IF group # <<>> /\ selected # <<>>
                         THEN Append(sel_result, selected) ELSE sel_result
    /\ sel_idx' = sel_idx + 1
    /\ UNCHANGED <<sel_input, sel_pc, sel_groups, sel_names, sel_call>>
    /\ UNCHANGED <<label_vars, read_vars, plot_vars>>

\* return (result if result else None), violin_names
SelReturn ==
    /\ sel_pc = "groups" /\ sel_idx = Len(sel_groups)
    /\ sel_pc' = "main"
    /\ UNCHANGED <<sel_input, sel_groups, sel_names, sel_idx, sel_result, sel_call>>
    /\ UNCHANGED <<label_vars, read_vars, plot_vars>>

\* main: create_plot(selected_files, ..., violin_names)
MainCall ==
    /\ sel_pc = "main"
    /\ sel_result # <<>> /\ SelectedFiles(sel_result) # <<>>
    /\ sel_call' = [files |-> SelectedFiles(sel_result), violin_names |-> sel_names]
    /\ sel_pc' = "called"
    /\ UNCHANGED <<sel_input, sel_groups, sel_names, sel_idx, sel_result>>
    /\ UNCHANGED <<label_vars, read_vars, plot_vars>>

\* main: nothing is left to plot
MainSkip ==
    /\ sel_pc = "main"
    /\ sel_result = <<>> \/ SelectedFiles(sel_result) = <<>>
    /\ sel_pc' = "skipped"
    /\ UNCHANGED <<sel_input, sel_groups, sel_names, sel_idx, sel_result, sel_call>>
    /\ UNCHANGED <<label_vars, read_vars, plot_vars>>

SelNext == SelSplit \/ SelAskNames \/ SelGroup \/ SelReturn \/ MainCall \/ MainSkip

SpecSelect == SelInit /\ [][SelNext]_vars

\* C15: the override names that reach create_plot are as many as the groups
\* passed to it, one per group; otherwise violin_names is None.
C15_NamesMatchGroups ==
    (sel_pc = "called" /\ ~sel_call.violin_names.none)
        => Len(sel_call.violin_names.names) = Len(sel_call.files)

\* The names that reach create_plot are as many as the ';'-separated parts of
\* the selection, whether or not a part gave a group.
NamesMatchTypedGroups ==
    (sel_pc = "called" /\ ~sel_call.violin_names.none)
        => Len(sel_call.violin_names.names) = Len(SplitAt(sel_input, ";"))

----------------------------------------------------------------------------
(* Claims about the axes of the distribution scene, checked under Spec *)

\* all the tail samples the distribution scene shows
PlottedSamples == Concat([k \in 1..Len(violin_fig.traces) |-> violin_fig.traces[k].y])

\* C16: every distribution scene that is produced has a y-axis range, and
\* its lower bound <= every plotted tail sample <= its upper bound.
C16_RangeHoldsEverySample ==
    outcome = "saved" =>
       /\ violin_fig.yaxis_range # <<>>
       /\ \A i \in 1..Len(PlottedSamples) :
             /\ FracLeq(violin_fig.yaxis_range[1], FracOfInt(PlottedSamples[i]))
             /\ FracLeq(FracOfInt(PlottedSamples[i]), violin_fig.yaxis_range[2])

\* For more than one group or a group of several files, and samples that
\* are all >= 0, the range is the one of the spec, cut at 0 below: 5% of the
\* value on each side for distances, 20 below and 25 above otherwise.
RangeOfNonNegativeCombined ==
    (outcome = "saved" /\ IsCombined(plot_files)
       /\ \A i \in 1..Len(PlottedSamples) : PlottedSamples[i] >= 0) =>
       LET lo == MinOf(PlottedSamples)
           hi == MaxOf(PlottedSamples)
           distance == \E k \in 1..Len(AllParsedFiles) :
                          Parsed[AllParsedFiles[k]].is_distance
       IN  /\ violin_fig.yaxis_range # <<>>
           /\ violin_fig.yaxis_range[1] =
                 IF distance THEN Frac(19 * lo, 20)
                 ELSE IF lo >= 20 THEN FracOfInt(lo - 20) ELSE <<0, 1>>
           /\ violin_fig.yaxis_range[2] =
                 IF distance THEN Frac(21 * hi, 20) ELSE FracOfInt(hi + 25)
           /\ \A i \in 1..Len(PlottedSamples) :
                 /\ FracLeq(violin_fig.yaxis_range[1], FracOfInt(PlottedSamples[i]))
                 /\ FracLeq(FracOfInt(PlottedSamples[i]), violin_fig.yaxis_range[2])

\* the tick label Plotly shows at x position pos: ticktext[i] for the i with
\* tickvals[i] = pos, when ticktext is that long
TickAt(pos) ==
    LET at == {i \in 1..Len(violin_fig.tickvals) :
                  violin_fig.tickvals[i] = pos /\ i <= Len(violin_fig.ticktext)}
    IN  IF at = {} THEN <<>> ELSE <<violin_fig.ticktext[CHOOSE i \in at : TRUE]>>

\* what the label of the group at index pos (0-based) is to show
OwnText(pos) ==
    IF violin_names.none THEN DigitText(pos + 1) ELSE violin_names.names[pos + 1]

\* C17: in a distribution scene that is produced, the tick label at the x
\* position of every plotted group has the colour of the group's trace and
\* shows the group's own index or override name.
C17_TickLabelOfEveryGroup ==
    outcome = "saved" =>
       \A k \in 1..Len(violin_fig.traces) :
          LET t == violin_fig.traces[k]
          IN  /\ TickAt(t.x0) # <<>>
              /\ TickAt(t.x0)[1].color = t.color
              /\ TickAt(t.x0)[1].text = OwnText(t.x0)

\* When every group has a valid file the tick labels are those of C17.
TickLabelsWhenNoGroupDropped ==
    (outcome = "saved" /\ Len(ValidGroups) = Len(plot_files)) =>
       \A k \in 1..Len(violin_fig.traces) :
          LET t == violin_fig.traces[k]
          IN  /\ TickAt(t.x0) # <<>>
              /\ TickAt(t.x0)[1].color = t.color
              /\ TickAt(t.x0)[1].text = OwnText(t.x0)

====
